---------------------------- MODULE Spec2Model ----------------------------
(***************************************************************************)
(* Model of the replication engine of scripts/etl_pipeline.py              *)
(* (class DatabaseReplicator).                                             *)
(*                                                                         *)
(* The source database (PostgreSQL, schema bi_schema) and the target       *)
(* database (a SQLite file) are modelled by their table contents.  The     *)
(* target is modelled with its committed contents (db) and the view of the *)
(* one connection the replicator holds (txn): sqlite3 opens a transaction  *)
(* implicitly before DELETE/INSERT, commit() publishes the view and        *)
(* rollback() or close() discards it.                                      *)
(*                                                                         *)
(* Every database or file call of the code may raise; the number of calls  *)
(* that raise in one behaviour is capped by MaxFaults.                     *)
(*                                                                         *)
(* The scheduler of scripts/daily_etl_scheduler.py (class ETLScheduler),   *)
(* which runs the pipeline as a child process, is modelled by the          *)
(* specification SchedSpec, with variables of its own.                     *)
(***************************************************************************)
EXTENDS Integers, Sequences, FiniteSets, TLC

\* ------------------------------------------------------------------ bounds
\* dimension keys are 1..MaxKey
MaxKey == 1
\* sale identifiers are 1..MaxSales
MaxSales == 1
\* invocations of run_full_replication on the one DatabaseReplicator
MaxRuns == 2
\* database/file calls that raise in one behaviour
MaxFaults == 2
\* row-level changes of the source database between runs
MaxSourceChanges == 1
\* entries of an execution_log handed to generate_report on its own
MaxLog == 3
\* elapsed time of one load, in units
MaxTime == 1
\* clock ticks in one second (the report's file name has the resolution of a second)
TicksPerSecond == 2
\* invocations of run_etl_job
MaxJobs == 3
\* ETLScheduler instances created, one after the other (scheduler processes)
MaxInstances == 2
\* calls of ejecutar_consulta
MaxQueries == 3
\* entries of an execution_history handed to get_status_report on its own
MaxHistory == 11

\* --------------------------------------------------------------- constants
\* (mutant) the fact table is listed before the dimensions
tables_to_replicate_FactFirst ==
  <<"fact_sales", "dim_date", "dim_customer_segment", "dim_product">>

\* the tables replicated, in the order of tables_to_replicate
tables_to_replicate == <<"dim_date", "dim_customer_segment", "dim_product", "fact_sales">>

Tables == {tables_to_replicate[k] : k \in 1..Len(tables_to_replicate)}

\* the objects created by create_target_schema, in statement order
SchemaStatements ==
  <<"dim_date", "dim_customer_segment", "dim_product", "fact_sales",
    "etl_control", "idx_sales_date", "idx_sales_product", "idx_sales_segment">>

Keys == 1..MaxKey

\* a row of fact_sales: its primary key and its three dimension references
FactRows ==
  [sales_id : 1..MaxSales, date_id : Keys, product_id : Keys, segment_id : Keys]

\* contents fact_sales can have: sales_id is its primary key
FactContents ==
  {S \in SUBSET FactRows : \A x, y \in S : x.sales_id = y.sales_id => x = y}

\* contents of the four tables of one database
MkTables(d, s, p, f) ==
  [t \in Tables |->
     CASE t = "dim_date" -> d
       [] t = "dim_customer_segment" -> s
       [] t = "dim_product" -> p
       [] OTHER -> f]

Snapshots ==
  {MkTables(d, s, p, f) :
     d \in SUBSET Keys, s \in SUBSET Keys, p \in SUBSET Keys, f \in FactContents}

EmptyTables == MkTables({}, {}, {}, {})

VARIABLES
  source,         \* contents of bi_schema.<table> in the source database
  source_conn,    \* self.source_conn: "None", "open" or "closed"
  target_conn,    \* self.target_conn: "None", "open" or "closed"
  schema,         \* objects that exist in the target database
  db,             \* committed target: [tables, etl_control]
  txn,            \* the target connection's view (db plus uncommitted changes)
  execution_log,  \* self.execution_log
  reports,        \* files in ./reports, oldest first: [name, time, report]
  pc,             \* position of the replicator
  i,              \* index of the loop over tables_to_replicate
  success,        \* local variable success of run_full_replication
  df,             \* the DataFrame being loaded
  report,         \* local variable report of run_full_replication
  retval,         \* the value run_full_replication is about to return
  result,         \* value returned by the last run_full_replication
  events,         \* history: calls made by the current/last run, in order
  lt,             \* history: the current/last call of load_table_data
  runs,           \* invocations of run_full_replication so far
  faults,         \* calls that raised so far
  changes         \* changes of the source database so far

VARIABLES
  sched_pc,             \* position of the scheduler process
  notification_config,  \* self.notification_config.get('enabled', False)
  execution_history,    \* self.execution_history
  last_execution,       \* self.last_execution
  history_file,         \* the entries in logs/execution_history.json
  children,             \* child processes (by job) that are running
  status,               \* the status the current job passes to _send_notification
  notifications,        \* history: the calls of _send_notification, in order
  emails,               \* the sends attempted through SMTP: status, job, sent or not
  job,                  \* history: the current/last invocation of run_etl_job
  jobs,                 \* invocations of run_etl_job so far
  instances,            \* ETLScheduler instances created so far
  status_report         \* the value returned by the last get_status_report

VARIABLES
  csv_pc,        \* position of the CSV loader
  csv_conn,      \* self.connection: "None", "open", "broken" (lost) or "closed"
  csv_files,     \* the rows of the four CSV files
  csv_txn,       \* the loader's connection's view of bi_schema
  csv_k,         \* which of the four loads is running
  csv_success,   \* local variable success of run_full_load
  csv_result,    \* how run_full_load ended: "True", "False" or "raised"
  csv_calls,     \* history: the calls run_full_load made, in order
  cl,            \* history: the current/last load_* call
  csv_commits    \* history: the tables whose load the server committed, in order

VARIABLES
  setup_pc,       \* position of run_full_setup
  setup_k,        \* index of the loop over steps
  success_steps,  \* self.success_steps
  failed_steps,   \* self.failed_steps
  setup_report,   \* the report generate_setup_report built
  setup_result,   \* how run_full_setup ended: "True", "False" or "raised"
  setup_calls     \* history: the step functions run_full_setup called, in order

VARIABLES
  q_pc,       \* position of ejecutar_consulta
  q_conn,     \* conexion: "None", "open", "broken" (lost) or "closed"
  q_db,       \* committed rows of the table the queries work on (a count)
  q_view,     \* the rows as the open transaction sees them
  q_call,     \* history: the current/last call: its arguments and its outcome
  q_calls     \* calls of ejecutar_consulta so far

schedVars ==
  <<sched_pc, notification_config, execution_history, last_execution, history_file,
    children, status, notifications, emails, job, jobs, instances, status_report>>

\* the variables of the replicator, the source database apart
replicatorVars ==
  <<source_conn, target_conn, schema, db, txn, execution_log, reports,
    pc, i, success, df, report, retval, result, events, lt, runs, faults, changes>>

etlVars == <<source, replicatorVars>>

csvVars ==
  <<csv_pc, csv_conn, csv_files, csv_txn, csv_k, csv_success, csv_result, csv_calls,
    cl, csv_commits>>

setupVars ==
  <<setup_pc, setup_k, success_steps, failed_steps, setup_report, setup_result, setup_calls>>

queryVars == <<q_pc, q_conn, q_db, q_view, q_call, q_calls>>

\* what a step of the replicator leaves alone
outsideReplicator == <<schedVars, csvVars, setupVars, queryVars>>

\* what a step of the scheduler leaves alone
outsideScheduler == <<etlVars, csvVars, setupVars, queryVars>>

\* what a step of run_etl_job leaves alone
outsideJob == <<outsideScheduler, status_report>>

\* what a step of the CSV loader leaves alone
outsideLoader == <<replicatorVars, schedVars, setupVars, queryVars>>

\* what a step of run_full_setup leaves alone
outsideSetup == <<etlVars, schedVars, csvVars, queryVars>>

\* what a step of ejecutar_consulta leaves alone
outsideQuery == <<etlVars, schedVars, csvVars, setupVars>>

vars == <<etlVars, schedVars, csvVars, setupVars, queryVars>>

dbVars == <<schema, db, txn>>
connVars == <<source_conn, target_conn>>
localVars == <<i, success, df, report, retval>>

\* ----------------------------------------------------------------- helpers
ControlRecord(t, n, st) == [table_name |-> t, records_processed |-> n, status |-> st]

\* execution_time of a load that succeeded (line 187): the replicator has no
\* clock for its loads, every successful load takes one unit
execution_time == 1

\* an entry of execution_log (lines 190-195 and 211-217)
LogEntry(t, n, tm, st) == [table |-> t, records |-> n, time |-> tm, status |-> st]

Event(kind, arg) == <<kind, arg>>

\* may one more call raise
CanFail == faults < MaxFaults

NoLoad ==
  [table |-> "", df |-> {}, prior |-> {}, ctl0 |-> 0, fault |-> "none", ret |-> "none"]

\* primary-key columns: a dimension row is its key, a fact row carries sales_id
RowKey(t, r) == IF t = "fact_sales" THEN r.sales_id ELSE r

\* df.to_sql(if_exists='append'): the rows can be inserted iff no primary key
\* of df is already in the table
InsertConflict(t, rows, existing) ==
  \E r \in rows : \E e \in existing : RowKey(t, r) = RowKey(t, e)

\* sum of the 'records' of the SUCCESS entries of a log
RECURSIVE SumSuccessRecords(_)
SumSuccessRecords(log) ==
  IF log = <<>> THEN 0
  ELSE (IF Head(log).status = "SUCCESS" THEN Head(log).records ELSE 0)
       + SumSuccessRecords(Tail(log))

CountStatus(log, st) == Cardinality({k \in 1..Len(log) : log[k].status = st})

\* sum of the 'time' of all the entries of a log
RECURSIVE SumTime(_)
SumTime(log) ==
  IF log = <<>> THEN 0 ELSE Head(log).time + SumTime(Tail(log))

\* (mutant) every entry is counted as successful
generate_report_AllSuccessful(log) ==
  [total_tables |-> Len(log),
   successful_tables |-> Len(log),
   failed_tables |-> CountStatus(log, "ERROR"),
   total_records_processed |-> SumSuccessRecords(log),
   total_execution_time |-> SumTime(log),
   tables_detail |-> log]

\* generate_report: the report built from self.execution_log
generate_report(log) ==
  [total_tables |-> Len(log),
   successful_tables |-> CountStatus(log, "SUCCESS"),
   failed_tables |-> CountStatus(log, "ERROR"),
   total_records_processed |-> SumSuccessRecords(log),
   total_execution_time |-> SumTime(log),
   tables_detail |-> log]

\* validate_replication when none of its queries raises: the row counts of the
\* four tables are compared; formatting the metrics raises TypeError when
\* SUM/AVG over an empty fact_sales are NULL, and the handler returns False
validate_replication(src, tgt) ==
  LET match(t) == Cardinality(src[t]) = Cardinality(tgt[t])
      metrics_ok == tgt["fact_sales"] # {}
  IN  IF metrics_ok THEN \A t \in Tables : match(t) ELSE FALSE

\* what validate_replication reports besides the per-table counts: the metrics
\* of the target's fact_sales it logs (line 274); revenue and average are sums
\* of amounts, which the model does not carry
validation_metrics(tgt) ==
  [m \in {"total_sales"} |-> Cardinality(tgt["fact_sales"])]

\* (mutant) the exit codes are swapped
main_Swapped(res) == IF res = "True" THEN 1 ELSE 0

\* main(): the exit code for the value res returned by run_full_replication
\* (lines 390-397)
main(res) == IF res = "True" THEN 0 ELSE 1

\* self.last_execution = None
NoExecution == [timestamp |-> 0, return_code |-> 0, stderr |-> "", success |-> FALSE]

NoJob ==
  [id |-> 0, h0 |-> 0, n0 |-> 0, child |-> "none", code |-> 0, saved |-> "none",
   done |-> FALSE]

\* no get_status_report has returned
NoReport == [status |-> "none"]

\* no scheduler process has been started
SchedulerNotStarted ==
  /\ sched_pc = "none"
  /\ notification_config = FALSE
  /\ execution_history = <<>>
  /\ last_execution = NoExecution
  /\ history_file = <<>>
  /\ children = {}
  /\ status = ""
  /\ notifications = <<>>
  /\ emails = <<>>
  /\ job = NoJob
  /\ jobs = 0
  /\ instances = 0
  /\ status_report = NoReport

\* no load_* call has been made
NoCsvLoad == [table |-> "", prior |-> EmptyTables, fault |-> "none", ret |-> "none"]

\* a CSVDataLoader as __init__ leaves it (lines 31-34), the CSV files holding
\* the rows files
LoaderCreated(files) ==
  /\ csv_pc = "none"
  /\ csv_conn = "None"
  /\ csv_files = files
  /\ csv_txn = EmptyTables
  /\ csv_k = 1
  /\ csv_success = TRUE
  /\ csv_result = "none"
  /\ csv_calls = <<>>
  /\ cl = NoCsvLoad
  /\ csv_commits = <<>>

\* generate_setup_report has not run
NoSetupReport == [total_steps |-> 0, success_rate |-> 0]

\* a ProjectSetup as __init__ leaves it (lines 28-31)
SetupCreated ==
  /\ setup_pc = "none"
  /\ setup_k = 1
  /\ success_steps = <<>>
  /\ failed_steps = <<>>
  /\ setup_report = NoSetupReport
  /\ setup_result = "none"
  /\ setup_calls = <<>>

\* no call of ejecutar_consulta
NoQuery ==
  [kind |-> "", fetch_all |-> TRUE, prior |-> 0, error |-> "none", ret |-> "none",
   committed |-> FALSE, rolled_back |-> FALSE]

\* connection_example.py before any call
NoQueryYet ==
  /\ q_pc = "idle"
  /\ q_conn = "None"
  /\ q_db = 0
  /\ q_view = 0
  /\ q_call = NoQuery
  /\ q_calls = 0

\* the other programs of the repository do not run
NothingElseRuns == LoaderCreated(EmptyTables) /\ SetupCreated /\ NoQueryYet

\* the locals and the history variables before a run
ReplicatorLocals ==
  /\ i = 1
  /\ success = TRUE
  /\ df = {}
  /\ report = generate_report(<<>>)
  /\ retval = "False"
  /\ result = "none"
  /\ events = <<>>
  /\ lt = NoLoad
  /\ faults = 0
  /\ changes = 0

\* a DatabaseReplicator as __init__ leaves it (lines 36-40), on an empty target
ReplicatorCreated ==
  /\ source_conn = "None"
  /\ target_conn = "None"
  /\ schema = {}
  /\ db = [tables |-> EmptyTables, etl_control |-> <<>>]
  /\ txn = db
  /\ execution_log = <<>>
  /\ reports = <<>>
  /\ pc = "idle"
  /\ ReplicatorLocals

Init ==
  /\ SchedulerNotStarted
  /\ NothingElseRuns
  /\ source \in Snapshots
  /\ ReplicatorCreated
  /\ runs = 0

\* ------------------------------------------------- run_full_replication
\* entry of run_full_replication on the replicator
Start ==
  /\ pc \in {"idle", "returned"}
  /\ runs < MaxRuns
  /\ runs' = runs + 1
  /\ pc' = "connect_source"
  /\ result' = "none"
  /\ events' = <<>>
  /\ UNCHANGED <<source, connVars, dbVars, execution_log, reports, localVars, lt,
                 faults, changes>>
  /\ UNCHANGED outsideReplicator

\* rows a table can hold
RowsOf(t) == IF t = "fact_sales" THEN FactRows ELSE Keys

\* the operational source database changes between two runs: one row is
\* inserted into or deleted from one table (primary keys stay unique)
SourceChange ==
  /\ pc \in {"idle", "returned"}
  /\ pc' = "idle"
  /\ runs >= 1
  /\ runs < MaxRuns
  /\ changes < MaxSourceChanges
  /\ changes' = changes + 1
  /\ \E t \in Tables : \E r \in RowsOf(t) :
       \/ /\ r \in source[t]
          /\ source' = [source EXCEPT ![t] = @ \ {r}]
       \/ /\ ~InsertConflict(t, {r}, source[t])
          /\ source' = [source EXCEPT ![t] = @ \cup {r}]
  /\ UNCHANGED <<connVars, dbVars, execution_log, reports, localVars, result,
                 events, lt, runs, faults>>
  /\ UNCHANGED outsideReplicator

\* (mutant) a failed connection does not end the run
EarlyReturn_ConnectIgnored(next) == IF next = "loop" THEN "finally" ELSE next

\* (mutant) a failed schema step does not end the run
EarlyReturn_SchemaIgnored(next) == IF next = "loop" THEN next ELSE "finally"

\* "if not self.<step>(): return False" (lines 309-317): where the run goes
\* when the step whose successor is next has returned False
EarlyReturn(next) == "finally"

\* connect_source, and the early return when it fails
ConnectSource ==
  /\ pc = "connect_source"
  /\ \/ /\ source_conn' = "open"
        /\ events' = Append(events, Event("connect_source", ""))
        /\ pc' = "connect_target"
        /\ UNCHANGED <<retval, faults>>
     \/ /\ CanFail
        /\ faults' = faults + 1
        /\ events' = events \o <<Event("connect_source", ""), Event("connect_failed", "source")>>
        /\ retval' = "False"
        /\ pc' = EarlyReturn("connect_target")
        /\ UNCHANGED source_conn
  /\ UNCHANGED <<source, target_conn, dbVars, execution_log, reports, i, success, df,
                 report, result, lt, runs, changes>>
  /\ UNCHANGED outsideReplicator

\* connect_target, and the early return when it fails
ConnectTarget ==
  /\ pc = "connect_target"
  /\ \/ /\ target_conn' = "open"
        /\ txn' = db
        /\ events' = Append(events, Event("connect_target", ""))
        /\ pc' = "create_target_schema"
        /\ UNCHANGED <<retval, faults>>
     \/ /\ CanFail
        /\ faults' = faults + 1
        /\ events' = events \o <<Event("connect_target", ""), Event("connect_failed", "target")>>
        /\ retval' = "False"
        /\ pc' = EarlyReturn("create_target_schema")
        /\ UNCHANGED <<target_conn, txn>>
  /\ UNCHANGED <<source, source_conn, schema, db, execution_log, reports, i, success,
                 df, report, result, lt, runs, changes>>
  /\ UNCHANGED outsideReplicator

\* (mutant) the statements take effect together or not at all
SchemaAfterCreate_Transactional(sch, k) ==
  IF k = Len(SchemaStatements)
    THEN sch \cup {SchemaStatements[j] : j \in 1..k}
    ELSE sch

\* the objects that exist after the first k statements of create_target_schema
\* ran on a target that had the objects sch
SchemaAfterCreate(sch, k) == sch \cup {SchemaStatements[j] : j \in 1..k}

\* (mutant) a table that exists is dropped and created again, empty
DataAfterCreate_Recreate(d, sch, k) ==
  [tables |-> [t \in Tables |->
                 IF \E j \in 1..k : SchemaStatements[j] = t /\ t \in sch
                   THEN {} ELSE d.tables[t]],
   etl_control |-> IF k >= 5 /\ "etl_control" \in sch THEN <<>> ELSE d.etl_control]

\* the rows of the target (d) after the first k statements ran on a target that
\* had the objects sch: CREATE TABLE IF NOT EXISTS leaves an existing table
\* alone and a created table is empty, as it was before it existed
DataAfterCreate(d, sch, k) == d

\* create_target_schema: the first k CREATE ... IF NOT EXISTS statements succeed
\* (sqlite3 runs DDL outside a transaction, so each is durable as it runs); it
\* returns True iff all of them and the final commit() succeeded
CreateTargetSchema ==
  /\ pc = "create_target_schema"
  /\ \E k \in 0..Len(SchemaStatements), committed \in BOOLEAN :
       /\ k < Len(SchemaStatements) => ~committed
       /\ schema' = SchemaAfterCreate(schema, k)
       /\ db' = DataAfterCreate(db, schema, k)
       /\ txn' = DataAfterCreate(txn, schema, k)
       /\ IF committed
            THEN /\ events' = Append(events, Event("create_target_schema", ""))
                 /\ pc' = "loop"
                 /\ i' = 1
                 /\ success' = TRUE
                 /\ UNCHANGED <<retval, faults>>
            ELSE /\ CanFail
                 /\ faults' = faults + 1
                 /\ events' = events \o
                      <<Event("create_target_schema", ""),
                        Event("statement_failed",
                              IF k < Len(SchemaStatements)
                                THEN SchemaStatements[k + 1] ELSE "commit"),
                        Event("schema_failed", "")>>
                 /\ retval' = "False"
                 /\ pc' = EarlyReturn("loop")
                 /\ UNCHANGED <<i, success>>
  /\ UNCHANGED <<source, connVars, execution_log, reports, df, report,
                 result, lt, runs, changes>>
  /\ UNCHANGED outsideReplicator

\* (mutant) the loop ends after its first table
LoopDone_AfterFirst(k) == k > Len(<<tables_to_replicate[1]>>)

\* "for table in tables_to_replicate" (line 327): the loop is over when the
\* index k is past the last table
LoopDone(k) == k > Len(tables_to_replicate)

\* head of the loop over tables_to_replicate, and the test after it
NextTable ==
  /\ pc = "loop"
  /\ IF ~LoopDone(i)
       THEN /\ pc' = "extract"
            /\ events' = Append(events, Event("replicate_table", tables_to_replicate[i]))
       ELSE /\ pc' = IF success THEN "validate" ELSE "generate_report"
            /\ UNCHANGED events
  /\ UNCHANGED <<source, connVars, dbVars, execution_log, reports, localVars, result,
                 lt, runs, faults, changes>>
  /\ UNCHANGED outsideReplicator

\* (mutant) "success = self.replicate_table(table)": only the last table counts
TableDone_LastOnly(b, evs) ==
  /\ success' = b
  /\ i' = i + 1
  /\ pc' = "loop"
  /\ events' = events \o evs
       \o <<Event(IF b THEN "table_ok" ELSE "table_failed", tables_to_replicate[i])>>

\* the body of the loop (lines 328-330), after replicate_table returned b, having
\* made the calls evs
TableDone(b, evs) ==
  /\ success' = (IF b THEN success ELSE FALSE)
  /\ i' = i + 1
  /\ pc' = "loop"
  /\ events' = events \o evs
       \o <<Event(IF b THEN "table_ok" ELSE "table_failed", tables_to_replicate[i])>>

\* (mutant) replicate_table does not test df for None: load_table_data(None, t)
\* runs its DELETE, fails in to_sql and commits the ERROR record with the DELETE
ExtractTableData_LoadsNone ==
  /\ pc = "extract"
  /\ \/ /\ df' = source[tables_to_replicate[i]]
        /\ events' = Append(events, Event("extract_table_data", tables_to_replicate[i]))
        /\ pc' = "load_delete"
        /\ UNCHANGED <<i, success, faults, dbVars>>
     \/ /\ CanFail
        /\ faults' = faults + 1
        /\ TableDone(FALSE, <<Event("extract_table_data", tables_to_replicate[i])>>)
        /\ txn' = [txn EXCEPT !.tables[tables_to_replicate[i]] = {}]
        /\ db' = txn'
        /\ UNCHANGED <<df, schema>>
  /\ UNCHANGED <<source, connVars, execution_log, reports, report, retval,
                 result, lt, runs, changes>>
  /\ UNCHANGED outsideReplicator

\* replicate_table: extract_table_data, and the return of False when it is None
ExtractTableData ==
  /\ pc = "extract"
  /\ \/ /\ df' = source[tables_to_replicate[i]]
        /\ events' = Append(events, Event("extract_table_data", tables_to_replicate[i]))
        /\ pc' = "load_delete"
        /\ UNCHANGED <<i, success, faults>>
     \/ /\ CanFail
        /\ faults' = faults + 1
        /\ TableDone(FALSE, <<Event("extract_table_data", tables_to_replicate[i])>>)
        /\ UNCHANGED df
  /\ UNCHANGED <<source, connVars, dbVars, execution_log, reports, report, retval,
                 result, lt, runs, changes>>
  /\ UNCHANGED outsideReplicator

\* ----------------------------------------------------- load_table_data
\* the value of self.target_conn.commit(): the view becomes the committed state
Commit(view) == view

\* (mutant) the date_id column of fact_sales is not carried over
ToSqlView_DateKeyLost(v, t, rows) ==
  [v EXCEPT !.tables[t] = @ \cup
     (IF t = "fact_sales" THEN {[r EXCEPT !.date_id = 0] : r \in rows} ELSE rows)]

\* df.to_sql(table, conn, if_exists='append', index=False) on the view v of the
\* connection, when it does not raise: pandas inserts the rows in a transaction
\* of its own on the same connection and commits it; an empty frame returns
\* before that transaction starts
ToSqlView(v, t, rows) == [v EXCEPT !.tables[t] = @ \cup rows]

\* (mutant) the failed insert is not rolled back
ToSqlRollback_NoRollback(v, d) == v

\* what to_sql leaves of the connection's view v when the insert raises:
\* pandas rolls the connection back, to the committed state d
ToSqlRollback(v, d) == d

\* (mutant) the table is not emptied before the insert
DeleteFrom_NoDelete(v, t) == v

\* cursor.execute("DELETE FROM <table>") on the view v
DeleteFrom(v, t) == [v EXCEPT !.tables[t] = {}]

\* (mutant) one control record per table: an earlier record of the table is replaced
InsertControl_Replace(v, rec) ==
  [v EXCEPT !.etl_control =
     Append(SelectSeq(@, LAMBDA c : c.table_name # rec.table_name), rec)]

\* INSERT INTO etl_control on the view v
InsertControl(v, rec) == [v EXCEPT !.etl_control = Append(@, rec)]

\* entry of load_table_data, cursor() and DELETE FROM <table> (lines 166-171)
LoadDelete ==
  /\ pc = "load_delete"
  /\ LET t == tables_to_replicate[i]
         call == [table |-> t, df |-> df, prior |-> db.tables[t],
                  ctl0 |-> Len(db.etl_control), fault |-> "none", ret |-> "running"]
     IN  /\ events' = Append(events, Event("load_table_data", t))
         /\ \/ /\ txn' = DeleteFrom(txn, t)
               /\ lt' = call
               /\ pc' = "load_to_sql"
               /\ UNCHANGED faults
            \/ /\ CanFail
               /\ faults' = faults + 1
               /\ lt' = [call EXCEPT !.fault = "delete"]
               /\ pc' = "load_except"
               /\ UNCHANGED txn
  /\ UNCHANGED <<source, connVars, schema, db, execution_log, reports, localVars,
                 result, runs, changes>>
  /\ UNCHANGED outsideReplicator

\* df.to_sql (line 174)
LoadToSql ==
  /\ pc = "load_to_sql"
  /\ LET t == tables_to_replicate[i]
     IN  \/ \* no exception
            /\ ~InsertConflict(t, df, txn.tables[t])
            /\ IF df = {}
                 THEN UNCHANGED <<db, txn>>
                 ELSE /\ txn' = ToSqlView(txn, t, df)
                      /\ db' = Commit(txn')
            /\ pc' = "load_control"
            /\ UNCHANGED <<lt, faults>>
         \/ \* it raises before its insert transaction: nothing is rolled back
            /\ CanFail
            /\ faults' = faults + 1
            /\ lt' = [lt EXCEPT !.fault = "prepare"]
            /\ pc' = "load_except"
            /\ UNCHANGED <<db, txn>>
         \/ \* the insert raises: a database error, or a primary key conflict
            /\ df # {}
            /\ \/ InsertConflict(t, df, txn.tables[t]) /\ UNCHANGED faults
               \/ CanFail /\ faults' = faults + 1
            /\ txn' = ToSqlRollback(txn, db)
            /\ lt' = [lt EXCEPT !.fault = "insert"]
            /\ pc' = "load_except"
            /\ UNCHANGED db
  /\ UNCHANGED <<source, connVars, schema, execution_log, reports, localVars, result,
                 events, runs, changes>>
  /\ UNCHANGED outsideReplicator

\* (mutant) records_processed counts one row more than the frame has
RecordsProcessed_OffByOne(rows) == Cardinality(rows) + 1

\* len(df), the records_processed of a SUCCESS record (line 183)
RecordsProcessed(rows) == Cardinality(rows)

\* INSERT INTO etl_control ... 'SUCCESS' (lines 179-183)
LoadControl ==
  /\ pc = "load_control"
  /\ LET t == tables_to_replicate[i]
     IN  \/ /\ txn' = InsertControl(txn, ControlRecord(t, RecordsProcessed(df), "SUCCESS"))
            /\ pc' = "load_commit"
            /\ UNCHANGED <<lt, faults>>
         \/ /\ CanFail
            /\ faults' = faults + 1
            /\ lt' = [lt EXCEPT !.fault = "control"]
            /\ pc' = "load_except"
            /\ UNCHANGED txn
  /\ UNCHANGED <<source, connVars, schema, db, execution_log, reports, localVars,
                 result, events, runs, changes>>
  /\ UNCHANGED outsideReplicator

\* commit, the SUCCESS entry of execution_log and return True (lines 185-197);
\* a commit that raises leaves the transaction open (database busy) or has
\* rolled it back (any other error)
LoadCommit ==
  /\ pc = "load_commit"
  /\ LET t == tables_to_replicate[i]
     IN  \/ /\ db' = Commit(txn)
            /\ execution_log' = Append(execution_log, LogEntry(t, Cardinality(df), execution_time, "SUCCESS"))
            /\ lt' = [lt EXCEPT !.ret = "True"]
            /\ TableDone(TRUE, <<>>)
            /\ UNCHANGED <<txn, faults>>
         \/ /\ CanFail
            /\ faults' = faults + 1
            /\ \E kept \in BOOLEAN : txn' = IF kept THEN txn ELSE db
            /\ lt' = [lt EXCEPT !.fault = "commit"]
            /\ pc' = "load_except"
            /\ UNCHANGED <<db, execution_log, i, success, events>>
  /\ UNCHANGED <<source, connVars, schema, reports, df, report, retval, result,
                 runs, changes>>
  /\ UNCHANGED outsideReplicator

\* the handler: cursor() and INSERT INTO etl_control ... 'ERROR' (lines 199-208);
\* an exception raised here leaves load_table_data and replicate_table
LoadExcept ==
  /\ pc = "load_except"
  /\ LET t == tables_to_replicate[i]
     IN  \/ /\ txn' = InsertControl(txn, ControlRecord(t, 0, "ERROR"))
            /\ pc' = "load_except_commit"
            /\ UNCHANGED <<lt, faults, events>>
         \/ /\ CanFail
            /\ faults' = faults + 1
            /\ lt' = [lt EXCEPT !.ret = "raised"]
            /\ pc' = "run_except"
            /\ events' = Append(events, Event("table_raised", t))
            /\ UNCHANGED txn
  /\ UNCHANGED <<source, connVars, schema, db, execution_log, reports, localVars,
                 result, runs, changes>>
  /\ UNCHANGED outsideReplicator

\* the handler: commit, the ERROR entry of execution_log and return False
\* (lines 209-219)
LoadExceptCommit ==
  /\ pc = "load_except_commit"
  /\ LET t == tables_to_replicate[i]
     IN  \/ /\ db' = Commit(txn)
            /\ execution_log' = Append(execution_log, LogEntry(t, 0, 0, "ERROR"))
            /\ lt' = [lt EXCEPT !.ret = "False"]
            /\ TableDone(FALSE, <<>>)
            /\ UNCHANGED <<txn, faults>>
         \/ /\ CanFail
            /\ faults' = faults + 1
            /\ \E kept \in BOOLEAN : txn' = IF kept THEN txn ELSE db
            /\ lt' = [lt EXCEPT !.ret = "raised"]
            /\ pc' = "run_except"
            /\ events' = Append(events, Event("table_raised", t))
            /\ UNCHANGED <<db, execution_log, i, success>>
  /\ UNCHANGED <<source, connVars, schema, reports, df, report, retval, result,
                 runs, changes>>
  /\ UNCHANGED outsideReplicator

\* ------------------------------------------- validation, report, exit
\* success = self.validate_replication() (line 334); a query that raises makes
\* it return False
ValidateReplication ==
  /\ pc = "validate"
  /\ \/ /\ success' = validate_replication(source, txn.tables)
        /\ events' = Append(events, Event("validate_replication", ""))
        /\ UNCHANGED faults
     \/ /\ CanFail
        /\ faults' = faults + 1
        /\ success' = FALSE
        /\ events' = Append(events, Event("validate_replication", "query raised"))
  /\ pc' = "generate_report"
  /\ UNCHANGED <<source, connVars, dbVars, execution_log, reports, i, df, report,
                 retval, result, lt, runs, changes>>
  /\ UNCHANGED outsideReplicator

\* report = self.generate_report() (line 337)
GenerateReport ==
  /\ pc = "generate_report"
  /\ events' = Append(events, Event("generate_report", ""))
  /\ report' = generate_report(execution_log)
  /\ pc' = "write_report"
  /\ UNCHANGED <<source, connVars, dbVars, execution_log, reports, i, success, df,
                 retval, result, lt, runs, faults, changes>>
  /\ UNCHANGED outsideReplicator

\* (mutant) "return True"
ReturnValue_AlwaysTrue(succ) == "True"

\* "return success" (line 356)
ReturnValue(succ) == IF succ THEN "True" ELSE "False"

\* datetime.now().strftime('%Y%m%d_%H%M%S') (line 340) for the instant t, in
\* ticks: the part of t below one second is dropped
strftime(t) == t \div TicksPerSecond

\* the instants at which a report can be written, given the files written so
\* far: time is counted from the first write, and a later write happens after
\* the one before it, within the same second or in a later one
WriteTimes(files) ==
  IF files = <<>> THEN {0}
  ELSE {files[Len(files)].time + (TicksPerSecond - 1), files[Len(files)].time + TicksPerSecond}

\* open(report_path, 'w') and json.dump (lines 343-344): a file of that name is
\* created, or truncated and rewritten if it exists
WriteFile(files, f) ==
  IF \E k \in 1..Len(files) : files[k].name = f.name
    THEN [k \in 1..Len(files) |-> IF files[k].name = f.name THEN f ELSE files[k]]
    ELSE Append(files, f)

\* mkdir, open and json.dump of the report, then return success (lines 340-356)
WriteReport ==
  /\ pc = "write_report"
  /\ \/ /\ \E t \in WriteTimes(reports) :
             reports' = WriteFile(reports, [name |-> strftime(t), time |-> t,
                                            report |-> report])
        /\ events' = Append(events, Event("write_report", ""))
        /\ retval' = ReturnValue(success)
        /\ pc' = "finally"
        /\ UNCHANGED faults
     \/ /\ CanFail
        /\ faults' = faults + 1
        /\ pc' = "run_except"
        /\ UNCHANGED <<reports, events, retval>>
  /\ UNCHANGED <<source, connVars, dbVars, execution_log, i, success, df, report,
                 result, lt, runs, changes>>
  /\ UNCHANGED outsideReplicator

\* (mutant) the handler logs and raises again
RunExcept_Reraise ==
  /\ pc = "run_except"
  /\ retval' = "raised"
  /\ pc' = "finally"
  /\ UNCHANGED <<source, connVars, dbVars, execution_log, reports, i, success, df,
                 report, result, events, lt, runs, faults, changes>>
  /\ UNCHANGED outsideReplicator

\* except Exception: return False (lines 358-360)
RunExcept ==
  /\ pc = "run_except"
  /\ retval' = "False"
  /\ pc' = "finally"
  /\ UNCHANGED <<source, connVars, dbVars, execution_log, reports, i, success, df,
                 report, result, events, lt, runs, faults, changes>>
  /\ UNCHANGED outsideReplicator

\* close() on a handle
Close(conn) == "closed"

\* (mutant) close() is called whether or not the handle was set
ShouldClose_Always(conn) == TRUE

\* "if self.source_conn:" / "if self.target_conn:" (lines 364, 366)
ShouldClose(conn) == conn # "None"

\* the finally block (lines 362-367) and the return: a handle that is not None
\* is closed; closing the target discards its open transaction; the locals of
\* the call are gone
Finally ==
  /\ pc = "finally"
  /\ source_conn' = IF ShouldClose(source_conn) THEN Close(source_conn) ELSE source_conn
  /\ target_conn' = IF ShouldClose(target_conn) THEN Close(target_conn) ELSE target_conn
  /\ events' = events
       \o (IF ShouldClose(source_conn)
             THEN <<Event("close", "source:" \o source_conn)>> ELSE <<>>)
       \o (IF ShouldClose(target_conn)
             THEN <<Event("close", "target:" \o target_conn)>> ELSE <<>>)
  /\ txn' = db
  /\ result' = retval
  /\ pc' = "returned"
  /\ i' = 1
  /\ success' = TRUE
  /\ df' = {}
  /\ report' = generate_report(<<>>)
  /\ UNCHANGED <<source, schema, db, execution_log, reports, retval, lt, runs, faults,
                 changes>>
  /\ UNCHANGED outsideReplicator

Next ==
  \/ Start
  \/ SourceChange
  \/ ConnectSource
  \/ ConnectTarget
  \/ CreateTargetSchema
  \/ NextTable
  \/ ExtractTableData
  \/ LoadDelete
  \/ LoadToSql
  \/ LoadControl
  \/ LoadCommit
  \/ LoadExcept
  \/ LoadExceptCommit
  \/ ValidateReplication
  \/ GenerateReport
  \/ WriteReport
  \/ RunExcept
  \/ Finally

Spec == Init /\ [][Next]_vars

TypeOK ==
  /\ source \in Snapshots
  /\ source_conn \in {"None", "open", "closed"}
  /\ target_conn \in {"None", "open", "closed"}
  /\ schema \subseteq {SchemaStatements[j] : j \in 1..Len(SchemaStatements)}
  /\ db.tables \in Snapshots
  /\ txn.tables \in Snapshots
  /\ i \in 1..(Len(tables_to_replicate) + 1)
  /\ success \in BOOLEAN
  /\ retval \in {"True", "False"}
  /\ result \in {"none", "True", "False"}
  /\ runs \in 0..MaxRuns
  /\ faults \in 0..MaxFaults

\* ------------------------------------------- generate_report on its own
\* the sequences over S of at most n elements
SeqsUpTo(S, n) == UNION {[1..k -> S] : k \in 0..n}

\* the entries load_table_data appends to execution_log: a SUCCESS entry has
\* len(df) records and the elapsed time, an ERROR entry has 0 and 0; the logs
\* name the first and the last table of tables_to_replicate
ReportEntries ==
  LET T == {tables_to_replicate[1], tables_to_replicate[Len(tables_to_replicate)]}
  IN  {LogEntry(t, n, tm, "SUCCESS") : t \in T, n \in 0..MaxKey, tm \in 0..MaxTime}
        \cup {LogEntry(t, 0, 0, "ERROR") : t \in T}

\* a run that has reached line 337 with some execution_log
ReportInit ==
  /\ SchedulerNotStarted
  /\ NothingElseRuns
  /\ source = EmptyTables
  /\ source_conn = "open"
  /\ target_conn = "open"
  /\ schema = {SchemaStatements[j] : j \in 1..Len(SchemaStatements)}
  /\ db = [tables |-> EmptyTables, etl_control |-> <<>>]
  /\ txn = db
  /\ execution_log \in SeqsUpTo(ReportEntries, MaxLog)
  /\ reports = <<>>
  /\ pc = "generate_report"
  /\ ReplicatorLocals
  /\ runs = 1

ReportSpec == ReportInit /\ [][GenerateReport]_vars

\* ------------------------------------------------ daily_etl_scheduler.py
\* The class ETLScheduler as written.  (The module imports MimeText and
\* MimeMultipart, lines 18-19, which email.mime does not define: the methods
\* below run only where those names resolve.)
\* the exit codes of the child: main() of etl_pipeline.py exits with 0 or 1;
\* a child ended by a signal has a negative code
ReturnCodes == {main("True"), main("False"), -9}

\* an entry of execution_history (timestamp stands for start_time.isoformat();
\* stdout and the duration are left out)
ExecutionRecord(ts, code, err, ok) ==
  [timestamp |-> ts, return_code |-> code, stderr |-> err, success |-> ok]

\* self.execution_history = [] (line 40): the history a new scheduler starts
\* with, whatever logs/execution_history.json holds (file)
NewHistory(file) == <<>>

\* main() creates the scheduler (lines 257-258): a scheduler process starts,
\* the one before it having ended
NewScheduler ==
  /\ sched_pc \in {"none", "idle"}
  /\ instances < MaxInstances
  /\ instances' = instances + 1
  /\ notification_config' \in BOOLEAN
  /\ execution_history' = NewHistory(history_file)
  /\ last_execution' = NoExecution
  /\ job' = NoJob
  /\ status' = ""
  /\ sched_pc' = "idle"
  /\ UNCHANGED <<history_file, children, notifications, emails, jobs>>
  /\ UNCHANGED outsideJob

\* entry of run_etl_job and the start of the child by subprocess.run (lines
\* 44-51); when the child cannot be started the handler of line 92 records
\* the job
RunEtlJob ==
  /\ sched_pc = "idle"
  /\ jobs < MaxJobs
  /\ jobs' = jobs + 1
  /\ LET call == [id |-> jobs', h0 |-> Len(execution_history),
                  n0 |-> Len(notifications), child |-> "running", code |-> 0,
                  saved |-> "none", done |-> FALSE]
     IN  \/ /\ children' = children \cup {jobs'}
            /\ job' = call
            /\ sched_pc' = "child"
            /\ UNCHANGED <<execution_history, status>>
         \/ /\ job' = [call EXCEPT !.child = "exception"]
            /\ execution_history' =
                 Append(execution_history, ExecutionRecord(jobs', -1, "exception", FALSE))
            /\ status' = "EXCEPTION"
            /\ sched_pc' = "notify"
            /\ UNCHANGED children
  /\ UNCHANGED <<notification_config, last_execution, history_file, notifications,
                 emails, instances>>
  /\ UNCHANGED outsideJob

\* (mutant) every child that returned counts as a success
NotificationStatus_AlwaysSuccess(code) == "SUCCESS"

\* "if result.returncode == 0" (lines 71-77): the status passed to
\* _send_notification for a child that returned code
NotificationStatus(code) == IF code = 0 THEN "SUCCESS" ELSE "ERROR"

\* the child returns within the timeout: the record is appended and becomes
\* last_execution (lines 53-66)
ChildReturns ==
  /\ sched_pc = "child"
  /\ \E code \in ReturnCodes :
       LET rec == ExecutionRecord(job.id, code, "child", code = 0)
       IN  /\ children' = children \ {job.id}
           /\ job' = [job EXCEPT !.child = "returned", !.code = code]
           /\ execution_history' = Append(execution_history, rec)
           /\ last_execution' = rec
           /\ status' = NotificationStatus(code)
  /\ sched_pc' = "save"
  /\ UNCHANGED <<notification_config, history_file, notifications, emails, jobs,
                 instances>>
  /\ UNCHANGED outsideJob

\* (mutant) the child is left running when the timeout expires
KillOnTimeout_Abandon(running, c) == running

\* subprocess.run(..., timeout=3600) (lines 49-51) when the timeout expires:
\* it kills the child c and waits for it before it raises TimeoutExpired
KillOnTimeout(running, c) == running \ {c}

\* the child exceeds the timeout: the handler of line 79
ChildTimeout ==
  /\ sched_pc = "child"
  /\ children' = KillOnTimeout(children, job.id)
  /\ job' = [job EXCEPT !.child = "timeout"]
  /\ execution_history' =
       Append(execution_history,
              ExecutionRecord(job.id, -1, "Timeout after 1 hour", FALSE))
  /\ status' = "TIMEOUT"
  /\ sched_pc' = "notify"
  /\ UNCHANGED <<notification_config, last_execution, history_file, notifications,
                 emails, jobs, instances>>
  /\ UNCHANGED outsideJob

\* subprocess.run raises another exception while the child runs (reading its
\* output fails): it kills the child, and the handler of line 92 records the job
ChildException ==
  /\ sched_pc = "child"
  /\ children' = children \ {job.id}
  /\ job' = [job EXCEPT !.child = "exception"]
  /\ execution_history' =
       Append(execution_history, ExecutionRecord(job.id, -1, "exception", FALSE))
  /\ status' = "EXCEPTION"
  /\ sched_pc' = "notify"
  /\ UNCHANGED <<notification_config, last_execution, history_file, notifications,
                 emails, jobs, instances>>
  /\ UNCHANGED outsideJob

\* (mutant) _save_execution_history without its try/except: a failing save
\* raises into the handler of line 92, which records the job a second time
SaveExecutionHistory_Unprotected ==
  /\ sched_pc = "save"
  /\ \/ /\ history_file' = execution_history
        /\ job' = [job EXCEPT !.saved = "written"]
        /\ UNCHANGED <<execution_history, status>>
     \/ /\ history_file' \in {history_file, <<>>}
        /\ job' = [job EXCEPT !.saved = "failed"]
        /\ execution_history' =
             Append(execution_history, ExecutionRecord(job.id, -1, "exception", FALSE))
        /\ status' = "EXCEPTION"
  /\ sched_pc' = "notify"
  /\ UNCHANGED <<notification_config, last_execution, children, notifications,
                 emails, jobs, instances>>
  /\ UNCHANGED outsideJob

\* _save_execution_history (lines 105-115), called at line 69: the file is
\* rewritten with the history of this scheduler; mkdir or open failing leaves
\* the file as it is, json.dump failing leaves it truncated; the exception is
\* caught
SaveExecutionHistory ==
  /\ sched_pc = "save"
  /\ \/ /\ history_file' = execution_history
        /\ job' = [job EXCEPT !.saved = "written"]
     \/ /\ history_file' \in {history_file, <<>>}
        /\ job' = [job EXCEPT !.saved = "failed"]
  /\ sched_pc' = "notify"
  /\ UNCHANGED <<notification_config, execution_history, last_execution, children,
                 status, notifications, emails, jobs, instances>>
  /\ UNCHANGED outsideJob

\* _send_notification(status, execution_record) (lines 117-173) and the return
\* of run_etl_job: the method returns at line 120 when notifications are
\* disabled; otherwise it builds the message and sends it, and a failure to
\* build or send is caught (line 172)
SendNotification ==
  /\ sched_pc = "notify"
  /\ notifications' = Append(notifications, [status |-> status, timestamp |-> job.id])
  /\ IF notification_config
       THEN \E sent \in BOOLEAN :
               emails' = Append(emails, [status |-> status, timestamp |-> job.id,
                                         sent |-> sent])
       ELSE UNCHANGED emails
  /\ job' = [job EXCEPT !.done = TRUE]
  /\ sched_pc' = "idle"
  /\ UNCHANGED <<notification_config, execution_history, last_execution, history_file,
                 children, status, jobs, instances>>
  /\ UNCHANGED outsideJob

\* the scheduler on its own: no replicator runs in its process
SchedInit ==
  /\ Init
  /\ source = EmptyTables

SchedNext ==
  \/ NewScheduler
  \/ RunEtlJob
  \/ ChildReturns
  \/ ChildTimeout
  \/ ChildException
  \/ SaveExecutionHistory
  \/ SendNotification

SchedSpec == SchedInit /\ [][SchedNext]_vars

\* ----------------------------------------- get_status_report on its own
\* the number of entries of the history get_status_report looks at
\* (execution_history[-10:], line 183)
RecentWindow == 10

\* (mutant) the success rate is taken over the whole history
get_status_report_WholeHistory(history, last) ==
  IF history = <<>>
    THEN [status |-> "NO_EXECUTIONS", message |-> "No hay ejecuciones registradas"]
    ELSE [status |-> "ACTIVE",
          total_executions |-> Len(history),
          recent_success_rate |->
            <<Cardinality({k \in 1..Len(history) : history[k].success}), Len(history)>>,
          last_execution |-> last]

\* get_status_report (lines 175-192) on a scheduler with the given
\* execution_history and last_execution; the rate "s/n" is the pair <<s, n>>;
\* next_scheduled comes from the schedule library and is left out
get_status_report(history, last) ==
  IF history = <<>>
    THEN [status |-> "NO_EXECUTIONS", message |-> "No hay ejecuciones registradas"]
    ELSE LET first == IF Len(history) > RecentWindow
                        THEN Len(history) - RecentWindow + 1 ELSE 1
             recent_executions == SubSeq(history, first, Len(history))
             success_count ==
               Cardinality({k \in 1..Len(recent_executions) :
                              recent_executions[k].success})
         IN  [status |-> "ACTIVE",
              total_executions |-> Len(history),
              recent_success_rate |-> <<success_count, Len(recent_executions)>>,
              last_execution |-> last]

\* a scheduler whose run_etl_job was invoked Len(codes) times, the k-th child
\* having returned codes[k], every save having succeeded, notifications off
SchedulerAfter(codes) ==
  LET n == Len(codes)
      rec(k) == ExecutionRecord(k, codes[k], "child", codes[k] = 0)
      history == [k \in 1..n |-> rec(k)]
  IN  /\ sched_pc = "idle"
      /\ notification_config = FALSE
      /\ execution_history = history
      /\ last_execution = IF n = 0 THEN NoExecution ELSE rec(n)
      /\ history_file = history
      /\ children = {}
      /\ status = IF n = 0 THEN "" ELSE NotificationStatus(codes[n])
      /\ notifications =
           [k \in 1..n |-> [status |-> NotificationStatus(codes[k]), timestamp |-> k]]
      /\ emails = <<>>
      /\ job = IF n = 0 THEN NoJob
               ELSE [id |-> n, h0 |-> n - 1, n0 |-> n - 1, child |-> "returned",
                     code |-> codes[n], saved |-> "written", done |-> TRUE]
      /\ jobs = n
      /\ instances = 1
      /\ status_report = NoReport

StatusInit ==
  /\ NothingElseRuns
  /\ source = EmptyTables
  /\ ReplicatorCreated
  /\ runs = 0
  /\ \E codes \in SeqsUpTo({main("True"), main("False")}, MaxHistory) :
        SchedulerAfter(codes)

\* a call of get_status_report between two jobs
GetStatusReport ==
  /\ sched_pc = "idle"
  /\ status_report' = get_status_report(execution_history, last_execution)
  /\ UNCHANGED <<sched_pc, notification_config, execution_history, last_execution,
                 history_file, children, status, notifications, emails, job, jobs,
                 instances>>
  /\ UNCHANGED outsideScheduler

\* one scheduler: its jobs, and get_status_report called between them
StatusNext ==
  \/ GetStatusReport
  \/ RunEtlJob
  \/ ChildReturns
  \/ ChildTimeout
  \/ ChildException
  \/ SaveExecutionHistory
  \/ SendNotification

StatusSpec == StatusInit /\ [][StatusNext]_vars

\* ------------------------------------------------------ load_csv_data.py
\* CSVDataLoader.run_full_load on the source database (PostgreSQL through
\* psycopg2, autocommit off).  A call on the connection succeeds, or raises
\* with the connection alive, or raises because the connection is lost: the
\* server then rolls the open transaction back, and every later call on the
\* connection but close() raises, rollback() included.

\* the loads of run_full_load, in its order (lines 308-313)
csv_loads == <<"dim_date", "dim_customer_segment", "dim_product", "fact_sales">>

\* fact_sales references the three dimensions (the schema scripts are not in
\* src/): every fact row's keys are rows of the dimensions
ForeignKeysHold(tabs) ==
  \A r \in tabs["fact_sales"] :
     /\ r.date_id \in tabs["dim_date"]
     /\ r.segment_id \in tabs["dim_customer_segment"]
     /\ r.product_id \in tabs["dim_product"]

\* (mutant) TRUNCATE without CASCADE: only the table itself is emptied
TruncateCascade_TableOnly(tabs, t) == [tabs EXCEPT ![t] = {}]

\* TRUNCATE TABLE bi_schema.<t> CASCADE (lines 83, 122, 160, 205): t and the
\* tables that reference it are emptied
TruncateCascade(tabs, t) ==
  IF t = "fact_sales"
    THEN [tabs EXCEPT ![t] = {}]
    ELSE [tabs EXCEPT ![t] = {}, !["fact_sales"] = {}]

\* (mutant) the handler does not roll back
Rollback_Keep(view, committed) == view

\* self.connection.rollback() (lines 101, 139, 177, 223): the connection's
\* view is the committed database again
Rollback(view, committed) == committed

\* validate_data when none of its queries raises (lines 226-291): the orphan
\* counts are only logged; formatting the metrics raises TypeError when
\* SUM/AVG over an empty fact_sales are NULL, and the handler returns False
validate_data(tabs) == tabs["fact_sales"] # {}

\* the load that follows load csv_k, or what follows the last one (lines
\* 313-318)
AfterLoad(ok) ==
  /\ csv_success' = (csv_success /\ ok)
  /\ IF csv_k < Len(csv_loads)
       THEN csv_k' = csv_k + 1 /\ csv_pc' = "read"
       ELSE /\ csv_k' = csv_k
            /\ csv_pc' = IF csv_success' THEN "validate" ELSE "close"

\* entry of run_full_load and connect_db (lines 299-303, 36-45)
CsvRunFullLoad ==
  /\ csv_pc = "none"
  /\ csv_calls' = Append(csv_calls, "connect_db")
  /\ \/ /\ csv_conn' = "open"
        /\ csv_txn' = source
        /\ csv_pc' = "read"
        /\ UNCHANGED csv_result
     \/ /\ csv_result' = "False"
        /\ csv_pc' = "returned"
        /\ UNCHANGED <<csv_conn, csv_txn>>
  /\ UNCHANGED <<source, csv_files, csv_k, csv_success, cl, csv_commits>>
  /\ UNCHANGED outsideLoader

\* entry of load csv_k: read_csv and the preparation of data_tuples (lines
\* 56-78); a missing or malformed file raises
CsvRead ==
  /\ csv_pc = "read"
  /\ csv_calls' = Append(csv_calls, csv_loads[csv_k])
  /\ \E ok \in BOOLEAN :
       /\ cl' = [table |-> csv_loads[csv_k], prior |-> source,
                 fault |-> IF ok THEN "none" ELSE "read", ret |-> "none"]
       /\ csv_pc' = IF ok THEN "truncate" ELSE "except"
  /\ UNCHANGED <<source, csv_conn, csv_files, csv_txn, csv_k, csv_success, csv_result,
                 csv_commits>>
  /\ UNCHANGED outsideLoader

\* a call on the open connection raises: with the connection alive the view
\* stays (the transaction is aborted), with the connection lost the server
\* has rolled back
CsvCallRaises(stage) ==
  /\ cl' = [cl EXCEPT !.fault = stage]
  /\ csv_pc' = "except"
  /\ \/ UNCHANGED <<csv_conn, csv_txn>>
     \/ csv_conn' = "broken" /\ csv_txn' = source

\* cursor() and TRUNCATE ... CASCADE (lines 80-83)
CsvTruncate ==
  /\ csv_pc = "truncate"
  /\ \/ /\ csv_txn' = TruncateCascade(csv_txn, csv_loads[csv_k])
        /\ csv_pc' = "insert"
        /\ UNCHANGED <<csv_conn, cl>>
     \/ CsvCallRaises("truncate")
  /\ UNCHANGED <<source, csv_files, csv_k, csv_success, csv_result, csv_calls,
                 csv_commits>>
  /\ UNCHANGED outsideLoader

\* execute_values (lines 86-92): the rows of the file are inserted; rows that
\* break a key (a duplicate in the file, a fact row without its dimension
\* rows) raise, and so can any other error
CsvInsert ==
  /\ csv_pc = "insert"
  /\ LET t == csv_loads[csv_k]
         loaded == [csv_txn EXCEPT ![t] = csv_files[t]]
     IN  \/ /\ ForeignKeysHold(loaded)
            /\ csv_txn' = loaded
            /\ csv_pc' = "commit"
            /\ UNCHANGED <<csv_conn, cl>>
         \/ CsvCallRaises("insert")
  /\ UNCHANGED <<source, csv_files, csv_k, csv_success, csv_result, csv_calls,
                 csv_commits>>
  /\ UNCHANGED outsideLoader

\* self.connection.commit() and "return True" (lines 93-96); when the
\* connection is lost during the commit the server has committed or not
CsvCommit ==
  /\ csv_pc = "commit"
  /\ \/ /\ source' = csv_txn
        /\ cl' = [cl EXCEPT !.ret = "True"]
        /\ csv_commits' = Append(csv_commits, csv_loads[csv_k])
        /\ AfterLoad(TRUE)
        /\ UNCHANGED <<csv_conn, csv_txn>>
     \/ /\ cl' = [cl EXCEPT !.fault = "commit"]
        /\ csv_pc' = "except"
        /\ \/ /\ csv_txn' = source
              /\ UNCHANGED <<source, csv_conn, csv_commits>>
           \/ /\ csv_conn' = "broken"
              /\ \E committed \in BOOLEAN :
                    /\ source' = IF committed THEN csv_txn ELSE source
                    /\ csv_commits' =
                         IF committed THEN Append(csv_commits, csv_loads[csv_k])
                         ELSE csv_commits
              /\ csv_txn' = source'
        /\ UNCHANGED <<csv_k, csv_success>>
  /\ UNCHANGED <<csv_files, csv_result, csv_calls>>
  /\ UNCHANGED outsideLoader

\* the handler of a load (lines 98-102): rollback and "return False"; on a
\* lost connection rollback raises, and the exception leaves the load and
\* the try block of run_full_load
CsvExcept ==
  /\ csv_pc = "except"
  /\ \/ /\ csv_conn = "open"
        /\ csv_txn' = Rollback(csv_txn, source)
        /\ cl' = [cl EXCEPT !.ret = "False"]
        /\ AfterLoad(FALSE)
        /\ UNCHANGED csv_conn
     \/ /\ csv_conn' = "broken"
        /\ csv_txn' = source
        /\ cl' = [cl EXCEPT !.ret = "raised"]
        /\ csv_pc' = "close_raise"
        /\ UNCHANGED <<csv_k, csv_success>>
  /\ UNCHANGED <<source, csv_files, csv_result, csv_calls, csv_commits>>
  /\ UNCHANGED outsideLoader

\* "if success: success &= self.validate_data()" (lines 316-317); a query
\* that raises makes validate_data return False
CsvValidate ==
  /\ csv_pc = "validate"
  /\ csv_calls' = Append(csv_calls, "validate_data")
  /\ \/ /\ csv_success' = validate_data(csv_txn)
        /\ UNCHANGED <<csv_conn, csv_txn>>
     \/ /\ csv_success' = FALSE
        /\ \/ UNCHANGED <<csv_conn, csv_txn>>
           \/ csv_conn' = "broken" /\ csv_txn' = source
  /\ csv_pc' = "close"
  /\ UNCHANGED <<source, csv_files, csv_k, csv_result, cl, csv_commits>>
  /\ UNCHANGED outsideLoader

\* the finally clause (lines 330-331, 47-51) and the end of run_full_load:
\* "return success", or the exception of the load goes on
CsvClose ==
  /\ csv_pc \in {"close", "close_raise"}
  /\ csv_calls' = Append(csv_calls, "close_connection")
  /\ csv_conn' = "closed"
  /\ csv_txn' = source
  /\ csv_result' = IF csv_pc = "close_raise" THEN "raised" ELSE ReturnValue(csv_success)
  /\ csv_pc' = "returned"
  /\ UNCHANGED <<source, csv_files, csv_k, csv_success, cl, csv_commits>>
  /\ UNCHANGED outsideLoader

\* one run of the loader, on a source database that holds rows of an earlier
\* load (its foreign keys hold), from CSV files with any rows
CsvInit ==
  /\ SchedulerNotStarted
  /\ SetupCreated
  /\ NoQueryYet
  /\ ReplicatorCreated
  /\ runs = 0
  /\ source \in {tabs \in Snapshots : ForeignKeysHold(tabs)}
  /\ \E files \in Snapshots : LoaderCreated(files)

CsvNext ==
  \/ CsvRunFullLoad
  \/ CsvRead
  \/ CsvTruncate
  \/ CsvInsert
  \/ CsvCommit
  \/ CsvExcept
  \/ CsvValidate
  \/ CsvClose

CsvSpec == CsvInit /\ [][CsvNext]_vars

\* -------------------------------------------------------- setup_project.py
\* the step functions of run_full_setup, in its order (lines 274-281)
steps ==
  <<"check_prerequisites", "install_dependencies", "create_directories",
    "setup_database", "load_sample_data", "test_etl_pipeline">>

\* the name a step function records in success_steps or failed_steps (lines
\* 77-87, 106-111, 183-194, 211-220, 236-245)
StepLabel(f) ==
  CASE f = "install_dependencies" -> "Dependencies installation"
    [] f = "create_directories" -> "Directory creation"
    [] f = "setup_database" -> "Database setup"
    [] f = "load_sample_data" -> "Sample data loading"
    [] OTHER -> "ETL pipeline test"

\* after the step at position setup_k the loop of lines 283-287 goes on,
\* whatever the step returned
AfterStep ==
  IF setup_k < Len(steps)
    THEN setup_k' = setup_k + 1 /\ setup_pc' = "step"
    ELSE setup_k' = setup_k /\ setup_pc' = "report"

\* entry of run_full_setup (lines 271-283)
RunFullSetup ==
  /\ setup_pc = "none"
  /\ setup_pc' = "step"
  /\ UNCHANGED <<setup_k, success_steps, failed_steps, setup_report, setup_result, setup_calls>>
  /\ UNCHANGED outsideSetup

\* check_prerequisites (lines 33-62): the Python check records one step and
\* returns when it fails; the PostgreSQL check records a second one; of the
\* exceptions of subprocess.run only FileNotFoundError is caught
CheckPrerequisites ==
  /\ setup_pc = "step"
  /\ setup_k = 1
  /\ setup_calls' = Append(setup_calls, steps[1])
  /\ \/ /\ failed_steps' = Append(failed_steps, "Python version check")
        /\ AfterStep
        /\ UNCHANGED <<success_steps, setup_result>>
     \/ /\ success_steps' =
             Append(Append(success_steps, "Python version check"), "PostgreSQL check")
        /\ AfterStep
        /\ UNCHANGED <<failed_steps, setup_result>>
     \/ /\ success_steps' = Append(success_steps, "Python version check")
        /\ failed_steps' = Append(failed_steps, "PostgreSQL check")
        /\ AfterStep
        /\ UNCHANGED setup_result
     \/ /\ success_steps' = Append(success_steps, "Python version check")
        /\ setup_result' = "raised"
        /\ setup_pc' = "raised"
        /\ UNCHANGED <<setup_k, failed_steps>>
  /\ UNCHANGED setup_report
  /\ UNCHANGED outsideSetup

\* one of the five other steps (lines 64-246): each catches every exception
\* and records its name in success_steps or in failed_steps
SetupStep ==
  /\ setup_pc = "step"
  /\ setup_k > 1
  /\ setup_calls' = Append(setup_calls, steps[setup_k])
  /\ \/ /\ success_steps' = Append(success_steps, StepLabel(steps[setup_k]))
        /\ UNCHANGED failed_steps
     \/ /\ failed_steps' = Append(failed_steps, StepLabel(steps[setup_k]))
        /\ UNCHANGED success_steps
  /\ AfterStep
  /\ UNCHANGED <<setup_report, setup_result>>
  /\ UNCHANGED outsideSetup

\* the report of generate_setup_report (lines 252-258); the rate is a float
\* in the code, here its integer part
generate_setup_report(ok, failed) ==
  [total_steps |-> Len(ok) + Len(failed),
   success_rate |-> (Len(ok) * 100) \div (Len(ok) + Len(failed))]

\* generate_setup_report (line 290, 248-267): the report is built and written
\* to setup_report.json; the write is not guarded
GenerateSetupReport ==
  /\ setup_pc = "report"
  /\ setup_report' = generate_setup_report(success_steps, failed_steps)
  /\ \/ setup_pc' = "return" /\ UNCHANGED setup_result
     \/ setup_pc' = "raised" /\ setup_result' = "raised"
  /\ UNCHANGED <<setup_k, success_steps, failed_steps, setup_calls>>
  /\ UNCHANGED outsideSetup

\* "if len(self.failed_steps) == 0: return True, else: return False" (lines
\* 312-322)
SetupReturn ==
  /\ setup_pc = "return"
  /\ setup_result' = IF Len(failed_steps) = 0 THEN "True" ELSE "False"
  /\ setup_pc' = "returned"
  /\ UNCHANGED <<setup_k, success_steps, failed_steps, setup_report, setup_calls>>
  /\ UNCHANGED outsideSetup

SetupInit ==
  /\ Init
  /\ source = EmptyTables

SetupNext ==
  \/ RunFullSetup
  \/ CheckPrerequisites
  \/ SetupStep
  \/ GenerateSetupReport
  \/ SetupReturn

SetupSpec == SetupInit /\ [][SetupNext]_vars

\* ------------------------------------------------- connection_example.py
\* ejecutar_consulta (lines 53-86) on PostgreSQL through psycopg2.  The table
\* the queries work on is modelled by its number of rows.  A call on the
\* connection succeeds, or raises psycopg2.Error with the connection alive,
\* or raises it because the connection is lost (then rollback raises too), or
\* raises an error that is not psycopg2.Error (wrong parameters).

\* the queries of the example: a SELECT, an INSERT ... RETURNING, and an
\* INSERT without RETURNING, which has no result to fetch
QueryKinds == {"select", "insert_returning", "insert"}

\* the rows the transaction sees after the statement
AfterStatement(kind, rows) == IF kind = "select" THEN rows ELSE rows + 1

\* entry of ejecutar_consulta and crear_conexion (lines 65-67, 38-51): a
\* connection that cannot be opened makes it return None
EjecutarConsulta ==
  /\ q_pc = "idle"
  /\ q_calls < MaxQueries
  /\ q_calls' = q_calls + 1
  /\ \E kind \in QueryKinds, fa \in BOOLEAN :
       LET call == [NoQuery EXCEPT !.kind = kind, !.fetch_all = fa, !.prior = q_db]
       IN  \/ /\ q_conn' = "open"
              /\ q_view' = q_db
              /\ q_call' = call
              /\ q_pc' = "execute"
           \/ /\ q_conn' = "None"
              /\ q_call' = [call EXCEPT !.ret = "None"]
              /\ q_pc' = "idle"
              /\ UNCHANGED q_view
  /\ UNCHANGED q_db
  /\ UNCHANGED outsideQuery

\* a call on the connection raises psycopg2.Error: with the connection alive
\* the transaction is aborted, with the connection lost the server has rolled
\* it back
QueryRaises ==
  /\ q_call' = [q_call EXCEPT !.error = "database"]
  /\ q_pc' = "except"
  /\ \/ UNCHANGED <<q_conn, q_view>>
     \/ q_conn' = "broken" /\ q_view' = q_db

\* cursor.execute(query, parametros) (lines 70-71)
QueryExecute ==
  /\ q_pc = "execute"
  /\ \/ /\ q_view' = AfterStatement(q_call.kind, q_view)
        /\ q_pc' = "fetch"
        /\ UNCHANGED <<q_conn, q_call>>
     \/ QueryRaises
     \/ /\ q_call' = [q_call EXCEPT !.error = "other"]
        /\ q_pc' = "finally"
        /\ UNCHANGED <<q_conn, q_view>>
  /\ UNCHANGED <<q_db, q_calls>>
  /\ UNCHANGED outsideQuery

\* fetchall() or fetchone() (lines 73-76): a statement without a result set
\* raises ProgrammingError, which is a psycopg2.Error
QueryFetch ==
  /\ q_pc = "fetch"
  /\ \/ /\ q_call.kind # "insert"
        /\ q_pc' = "commit"
        /\ UNCHANGED <<q_conn, q_view, q_call>>
     \/ QueryRaises
  /\ UNCHANGED <<q_db, q_calls>>
  /\ UNCHANGED outsideQuery

\* conexion.commit() and "return resultados" (lines 78-79); when the
\* connection is lost during the commit the server has committed or not
QueryCommit ==
  /\ q_pc = "commit"
  /\ \/ /\ q_db' = q_view
        /\ q_call' = [q_call EXCEPT !.ret = "resultados", !.committed = TRUE]
        /\ q_pc' = "finally"
        /\ UNCHANGED <<q_conn, q_view>>
     \/ /\ q_pc' = "except"
        /\ \/ /\ q_view' = q_db
              /\ q_call' = [q_call EXCEPT !.error = "database"]
              /\ UNCHANGED <<q_db, q_conn>>
           \/ /\ q_conn' = "broken"
              /\ \E committed \in BOOLEAN :
                    /\ q_db' = IF committed THEN q_view ELSE q_db
                    /\ q_call' = [q_call EXCEPT !.error = "database",
                                                !.committed = committed]
              /\ q_view' = q_db'
  /\ UNCHANGED q_calls
  /\ UNCHANGED outsideQuery

\* the handler of psycopg2.Error (lines 81-84): rollback and "return None";
\* on a lost connection rollback raises and the exception goes on
QueryExcept ==
  /\ q_pc = "except"
  /\ \/ /\ q_conn = "open"
        /\ q_view' = q_db
        /\ q_call' = [q_call EXCEPT !.ret = "None", !.rolled_back = TRUE]
        /\ UNCHANGED q_conn
     \/ /\ q_conn' = "broken"
        /\ q_view' = q_db
        /\ UNCHANGED q_call
  /\ q_pc' = "finally"
  /\ UNCHANGED <<q_db, q_calls>>
  /\ UNCHANGED outsideQuery

\* the finally clause (lines 85-86): close() ends the connection and with it
\* an open transaction; the function returns its value, or the exception
\* that was not handled goes on to the caller
QueryFinally ==
  /\ q_pc = "finally"
  /\ q_conn' = "closed"
  /\ q_view' = q_db
  /\ q_call' = IF q_call.ret = "none" THEN [q_call EXCEPT !.ret = "raised"] ELSE q_call
  /\ q_pc' = "idle"
  /\ UNCHANGED <<q_db, q_calls>>
  /\ UNCHANGED outsideQuery

QueryInit ==
  /\ Init
  /\ source = EmptyTables

QueryNext ==
  \/ EjecutarConsulta
  \/ QueryExecute
  \/ QueryFetch
  \/ QueryCommit
  \/ QueryExcept
  \/ QueryFinally

QuerySpec == QueryInit /\ [][QueryNext]_vars

\* ------------------------------------------------------------- properties
\* run_full_replication has returned and nothing has happened since
Returned == pc = "returned"

\* the current/last run made the call e
HasEvent(e) == \E k \in 1..Len(events) : events[k] = e

\* load_table_data has returned (True or False) and no other call of it has started
LoadReturned == lt.ret \in {"True", "False"}

\* the ERROR control record of the last load_table_data call is committed
ErrorRecorded ==
  \E k \in (lt.ctl0 + 1)..Len(db.etl_control) :
     db.etl_control[k] = ControlRecord(lt.table, 0, "ERROR")

\* every fact row's three keys resolve in the dimension tables of tbls
Integrity(tbls) ==
  \A r \in tbls["fact_sales"] :
     /\ r.date_id \in tbls["dim_date"]
     /\ r.product_id \in tbls["dim_product"]
     /\ r.segment_id \in tbls["dim_customer_segment"]

\* source and target hold the same number of rows in every table
CountsMatch(src, tgt) == \A t \in Tables : Cardinality(src[t]) = Cardinality(tgt[t])

\* in the last run the extraction of t returned None
ExtractFailed(t) ==
  /\ HasEvent(Event("extract_table_data", t))
  /\ ~HasEvent(Event("load_table_data", t))

C2_FullReplace ==
  lt.ret = "True" =>
     /\ db.tables[lt.table] = lt.df
     /\ txn.tables[lt.table] = lt.df

\* C2 witness: a load has returned True on a table that held a row not in D
C2_Witness == lt.ret = "True" /\ lt.prior \ lt.df # {}

\* C3: control ledger completeness. Every call of load_table_data that returns
\* True or False adds exactly one record to etl_control, for its table.
C3_ExactlyOneControlRecord ==
  LoadReturned =>
     /\ Len(db.etl_control) = lt.ctl0 + 1
     /\ db.etl_control[Len(db.etl_control)].table_name = lt.table

\* C4: every invocation of run_full_replication generates the report and writes
\* the report file before it returns.
C4_ReportAlwaysProduced ==
  Returned =>
     /\ HasEvent(Event("generate_report", ""))
     /\ HasEvent(Event("write_report", ""))

\* C5: in every run that reaches the replication stage replicate_table is
\* invoked for all four tables, and the run returns False when a table failed.
C5_TableFailureNotFatal ==
  (Returned /\ HasEvent(Event("replicate_table", tables_to_replicate[1]))) =>
     /\ \A t \in Tables : HasEvent(Event("replicate_table", t))
     /\ (\E t \in Tables :
            HasEvent(Event("table_failed", t)) \/ HasEvent(Event("table_raised", t)))
          => result = "False"

\* C6: after a run in which the extraction of a table failed, etl_control holds
\* an ERROR record for that table and the run's report has an ERROR entry for it.
C6_ExtractFailureRecorded ==
  Returned =>
     \A t \in Tables :
        ExtractFailed(t) =>
           /\ \E k \in 1..Len(db.etl_control) :
                 db.etl_control[k] = ControlRecord(t, 0, "ERROR")
           /\ reports # <<>>
           /\ LET detail == reports[Len(reports)].report.tables_detail
              IN  \E k \in 1..Len(detail) : detail[k] = LogEntry(t, 0, 0, "ERROR")

\* C7: when run_full_replication returns, no connection it opened is still
\* open, and no close was attempted on a handle that was never set.
C7_ConnectionsClosed ==
  Returned =>
     /\ source_conn # "open"
     /\ target_conn # "open"
     /\ \A k \in 1..Len(events) :
           events[k][1] = "close" => events[k][2] \notin {"source:None", "target:None"}

\* C7 witness: a run returned after opening the source but not the target
C7_Witness == Returned /\ source_conn = "closed" /\ target_conn = "None"

\* C8: row-count parity. When run_full_replication returns True every table
\* has as many rows in the target as in the source.
C8_RowCountParity == (Returned /\ result = "True") => CountsMatch(source, db.tables)

\* C8 witness: a run returned True with rows in every table
C8_Witness == Returned /\ result = "True" /\ \A t \in Tables : db.tables[t] # {}

C10_ValidateIffCountsMatch ==
  (pc = "generate_report" /\ HasEvent(Event("validate_replication", ""))) =>
     (success <=> CountsMatch(source, txn.tables))

\* number of fact rows of tbls whose column col has no row in the table dim
Orphans(tbls, col, dim) ==
  Cardinality({r \in tbls["fact_sales"] : r[col] \notin tbls[dim]})

\* validate_replication has returned in the current run, no query having raised
ValidationRan ==
  pc = "generate_report" /\ HasEvent(Event("validate_replication", ""))

\* C11: the validator reports, for the date, product and segment key, the number
\* of target fact rows whose key has no dimension row (sales_without_date,
\* sales_without_product, sales_without_segment).
C11_IntegrityCountsReported ==
  ValidationRan =>
     LET rep == validation_metrics(txn.tables)
     IN  /\ {"sales_without_date", "sales_without_product", "sales_without_segment"}
              \subseteq DOMAIN rep
         /\ rep["sales_without_date"] = Orphans(txn.tables, "date_id", "dim_date")
         /\ rep["sales_without_product"] = Orphans(txn.tables, "product_id", "dim_product")
         /\ rep["sales_without_segment"]
              = Orphans(txn.tables, "segment_id", "dim_customer_segment")

\* in the current/last run every replicate_table call returned True
AllTablesOk == \A t \in Tables : HasEvent(Event("table_ok", t))

\* C12: a run in which the four loads succeeded and the validation matched
\* returns True, whether or not the report file could be written.
C12_ReportFailureKeepsVerdict ==
  (/\ Returned
   /\ AllTablesOk
   /\ HasEvent(Event("validate_replication", ""))
   /\ validate_replication(source, db.tables))
  => result = "True"

\* in the current/last run a connection could not be opened
ConnectFailed ==
  \/ HasEvent(Event("connect_failed", "source"))
  \/ HasEvent(Event("connect_failed", "target"))

\* in the current/last run create_target_schema returned False
SchemaFailed == HasEvent(Event("schema_failed", ""))

\* the current/last run made a call of one of the kinds
HasCall(kinds) == \E k \in 1..Len(events) : events[k][1] \in kinds

\* C13: a run in which a connection cannot be opened returns False, executes no
\* schema statement, extracts and loads no table, and no later step of it
\* changes the target's schema, its tables or etl_control.
C13_ConnectFailureTouchesNothing ==
  /\ [](ConnectFailed =>
          /\ ~HasCall({"create_target_schema", "replicate_table", "extract_table_data",
                       "load_table_data", "validate_replication"})
          /\ (Returned => result = "False"))
  /\ [][ConnectFailed' => (schema' = schema /\ db' = db /\ txn' = txn)]_vars

\* C13 witness: a run has returned after connect_target failed
C13_Witness == Returned /\ HasEvent(Event("connect_failed", "target"))

\* C14: a run in which create_target_schema returns False returns False,
\* extracts and loads no table and does not validate; no step of it changes
\* the target's tables or etl_control.
C14_SchemaFailureFatal ==
  /\ [](SchemaFailed =>
          /\ ~HasCall({"replicate_table", "extract_table_data", "load_table_data",
                       "validate_replication"})
          /\ (Returned => result = "False"))
  /\ [][SchemaFailed' => (db' = db /\ txn' = txn)]_vars

\* C14 witness: a run has returned after create_target_schema failed
C14_Witness == Returned /\ SchemaFailed

\* validate_replication was called in the current/last run
Validated == HasCall({"validate_replication"})

\* C15: validate_replication is called in a run only if replicate_table
\* returned True for all four tables; after a table failed it is not called.
C15_ValidationOnlyAfterAllLoads ==
  /\ Validated => AllTablesOk
  /\ (\E t \in Tables :
         HasEvent(Event("table_failed", t)) \/ HasEvent(Event("table_raised", t)))
       => ~Validated

\* C15 witness: a run with a failed table went on to the report, without validation
C15_Witness ==
  /\ Returned
  /\ \E t \in Tables : HasEvent(Event("table_failed", t))
  /\ HasEvent(Event("generate_report", ""))
  /\ ~Validated

\* the order the claim fixes
FixedOrder == <<"dim_date", "dim_customer_segment", "dim_product", "fact_sales">>

\* the replicate_table calls of the current/last run, in order
ReplicateCalls == SelectSeq(events, LAMBDA e : e[1] = "replicate_table")

\* C16: the tables are replicated in the order dim_date, dim_customer_segment,
\* dim_product, fact_sales, and the load of fact_sales starts only after the
\* attempts of the three dimension tables have finished.
C16_FixedOrder ==
  /\ Len(ReplicateCalls) <= Len(FixedOrder)
  /\ \A k \in 1..Len(ReplicateCalls) : ReplicateCalls[k][2] = FixedOrder[k]
  /\ \A k \in 1..Len(events) :
        events[k] = Event("load_table_data", "fact_sales") =>
           \A d \in {"dim_date", "dim_customer_segment", "dim_product"} :
              \E j \in 1..(k - 1) :
                 events[j] \in {Event("table_ok", d), Event("table_failed", d)}

\* C16 witness: the load of fact_sales has started
C16_Witness == HasEvent(Event("load_table_data", "fact_sales"))

\* every object create_target_schema creates
FullSchema == {SchemaStatements[j] : j \in 1..Len(SchemaStatements)}

\* C17: create_target_schema run on a target that already has the whole
\* schema changes neither the set of tables and indexes nor the rows of any
\* table nor the etl_control records.
C17_SchemaIdempotent ==
  [][(pc = "create_target_schema" /\ schema = FullSchema)
       => (schema' = schema /\ db' = db /\ txn' = txn)]_vars

\* C17 witness: create_target_schema has run again on a provisioned target
\* that holds rows and control records
C17_Witness ==
  /\ pc = "loop"
  /\ i = 1
  /\ schema = FullSchema
  /\ db.tables # EmptyTables
  /\ db.etl_control # <<>>

\* C18: etl_control is append-only: every step leaves the committed records
\* in place and unchanged, adding records only at the end.
C18_ControlAppendOnly ==
  [][/\ Len(db.etl_control) <= Len(db.etl_control')
     /\ SubSeq(db.etl_control', 1, Len(db.etl_control)) = db.etl_control]_vars

\* C18 witness: two load attempts of the same table are recorded
C18_Witness ==
  \E j, k \in 1..Len(db.etl_control) :
     j < k /\ db.etl_control[j].table_name = db.etl_control[k].table_name

\* C19: after one successful run on an empty target every table has as many
\* rows as its source table (n) and the control records are (table, SUCCESS,
\* n), one per table; the SUCCESS record of any load that returns True carries
\* the number of rows loaded.
C19_SuccessRecordCounts ==
  /\ (Returned /\ result = "True" /\ runs = 1) =>
        /\ Len(db.etl_control) = Len(FixedOrder)
        /\ \A k \in 1..Len(FixedOrder) :
              /\ Cardinality(db.tables[FixedOrder[k]]) = Cardinality(source[FixedOrder[k]])
              /\ db.etl_control[k] =
                   [table_name |-> FixedOrder[k],
                    records_processed |-> Cardinality(source[FixedOrder[k]]),
                    status |-> "SUCCESS"]
  /\ lt.ret = "True" =>
        db.etl_control[Len(db.etl_control)] =
          [table_name |-> lt.table,
           records_processed |-> Cardinality(db.tables[lt.table]),
           status |-> "SUCCESS"]

\* C19 witness: the first run returned True with rows in dim_product
C19_Witness ==
  Returned /\ result = "True" /\ runs = 1 /\ source["dim_product"] # {}

\* every stage of the last run succeeded
RunSucceeded ==
  /\ HasEvent(Event("connect_source", ""))
  /\ HasEvent(Event("connect_target", ""))
  /\ ~ConnectFailed
  /\ HasEvent(Event("create_target_schema", ""))
  /\ ~SchemaFailed
  /\ AllTablesOk
  /\ HasEvent(Event("validate_replication", ""))
  /\ validate_replication(source, db.tables)
  /\ HasEvent(Event("write_report", ""))

ReportBuilt == pc = "write_report"

\* C24: the report of a run describes that run only: total_tables and the
\* length of tables_detail equal the number of tables whose replication the run
\* attempted, and tables_detail names those tables, in order.
C24_ReportDescribesRun ==
  ReportBuilt =>
     /\ report.total_tables = Len(ReplicateCalls)
     /\ Len(report.tables_detail) = Len(ReplicateCalls)
     /\ \A k \in 1..Len(report.tables_detail) :
           k <= Len(ReplicateCalls) => report.tables_detail[k].table = ReplicateCalls[k][2]

\* C25: a failed extraction performs no partial work: neither the call of
\* replicate_table nor the extraction that fails in it changes the target's
\* schema, any target table or etl_control, committed or uncommitted.
C25_ExtractFailureNoPartialWork ==
  [][(pc = "loop" \/ (pc = "extract" /\ pc' = "loop"))
       => (schema' = schema /\ db' = db /\ txn' = txn)]_vars

\* C25 witness: the extraction of a table failed whose target table holds rows
C25_Witness ==
  \E t \in Tables : ExtractFailed(t) /\ db.tables[t] # {} /\ db.etl_control # <<>>

\* the stage of run_full_replication a position belongs to
Stage(p) ==
  CASE p = "connect_source" -> 1
    [] p = "connect_target" -> 2
    [] p = "create_target_schema" -> 3
    [] p \in {"loop", "extract", "load_delete", "load_to_sql", "load_control",
              "load_commit", "load_except", "load_except_commit"} -> 4
    [] p = "validate" -> 5
    [] p \in {"generate_report", "write_report"} -> 6
    [] p \in {"run_except", "finally"} -> 7
    [] OTHER -> 8

\* the call e was made before the k-th call of the current/last run
Before(e, k) == \E j \in 1..(k - 1) : events[j] = e

\* replicate_table(t) returned before the k-th call of the current/last run
ReturnedBefore(t, k) == Before(Event("table_ok", t), k) \/ Before(Event("table_failed", t), k)

\* C26: a run moves through its stages forward only: the schema is provisioned
\* after both connections are open, tables are extracted and loaded only after
\* create_target_schema returned True, validation starts only after the four
\* replicate_table calls have returned, and the report is generated after the
\* validation decision.
C26_StagesForward ==
  /\ [](\A k \in 1..Len(events) :
          /\ events[k][1] = "create_target_schema" =>
                /\ Before(Event("connect_source", ""), k)
                /\ Before(Event("connect_target", ""), k)
                /\ ~ConnectFailed
          /\ events[k][1] \in {"replicate_table", "extract_table_data", "load_table_data"} =>
                /\ Before(Event("create_target_schema", ""), k)
                /\ ~SchemaFailed
          /\ events[k][1] = "validate_replication" =>
                \A t \in {"dim_date", "dim_customer_segment", "dim_product", "fact_sales"} :
                   ReturnedBefore(t, k)
          /\ events[k][1] = "generate_report" =>
                /\ \A t \in {"dim_date", "dim_customer_segment", "dim_product", "fact_sales"} :
                      ReturnedBefore(t, k)
                /\ AllTablesOk => \E j \in 1..(k - 1) : events[j][1] = "validate_replication"
                /\ \A j \in (k + 1)..Len(events) : events[j][1] # "validate_replication")
  /\ [][pc' # "connect_source" => Stage(pc') >= Stage(pc)]_vars

\* C26 witness: a run has returned that validated and generated its report
C26_Witness == Returned /\ Validated /\ HasEvent(Event("generate_report", ""))

\* the statement of create_target_schema that failed in the current/last run
StatementFailed(k) == HasEvent(Event("statement_failed", SchemaStatements[k]))

\* C27: a failure of create_target_schema at its k-th statement leaves the
\* objects of the earlier statements in place, no step removes an object, and
\* a call that returns True ends with the complete schema.
C27_PartialSchemaKept ==
  /\ [](\A k \in 1..Len(SchemaStatements) :
          StatementFailed(k) => \A j \in 1..(k - 1) : SchemaStatements[j] \in schema)
  /\ [][schema \subseteq schema']_vars
  /\ [][(pc = "create_target_schema" /\ pc' = "loop") =>
          schema' = {"dim_date", "dim_customer_segment", "dim_product", "fact_sales",
                     "etl_control", "idx_sales_date", "idx_sales_product",
                     "idx_sales_segment"}]_vars

\* C27 witness: create_target_schema failed after creating tables, and the
\* schema is incomplete
C27_Witness ==
  /\ \E k \in 2..Len(SchemaStatements) : StatementFailed(k)
  /\ "dim_date" \in schema
  /\ schema # FullSchema

\* C30: two runs never write the same report file: a write of the report
\* leaves every file that exists as it is and adds one file.
C30_OneReportFilePerRun ==
  [][reports' # reports =>
       /\ Len(reports') = Len(reports) + 1
       /\ \A k \in 1..Len(reports) : reports'[k] = reports[k]]_vars

\* a step of run_full_replication
RunStep ==
  \/ ConnectSource
  \/ ConnectTarget
  \/ CreateTargetSchema
  \/ NextTable
  \/ ExtractTableData
  \/ LoadDelete
  \/ LoadToSql
  \/ LoadControl
  \/ LoadCommit
  \/ LoadExcept
  \/ LoadExceptCommit
  \/ ValidateReplication
  \/ GenerateReport
  \/ WriteReport
  \/ RunExcept
  \/ Finally

\* run_full_replication has been entered and has not returned
Running == pc \notin {"idle", "returned"}

\* how far the run is: a number every step of the run increases
Progress ==
  CASE pc = "connect_source" -> 1
    [] pc = "connect_target" -> 2
    [] pc = "create_target_schema" -> 3
    [] pc = "loop" -> 10 * i
    [] pc = "extract" -> 10 * i + 1
    [] pc = "load_delete" -> 10 * i + 2
    [] pc = "load_to_sql" -> 10 * i + 3
    [] pc = "load_control" -> 10 * i + 4
    [] pc = "load_commit" -> 10 * i + 5
    [] pc = "load_except" -> 10 * i + 6
    [] pc = "load_except_commit" -> 10 * i + 7
    [] pc = "validate" -> 60
    [] pc = "generate_report" -> 61
    [] pc = "write_report" -> 62
    [] pc = "run_except" -> 63
    [] pc = "finally" -> 64
    [] OTHER -> 65

JobReturned == job.done

\* C21: every invocation of run_etl_job appends exactly one entry to
\* execution_history and calls _send_notification exactly once, with SUCCESS
\* iff the child returned 0, ERROR iff it returned another code, TIMEOUT iff it
\* exceeded the timeout and EXCEPTION iff running it failed otherwise; the
\* entry's success flag is true only for SUCCESS.
C21_OneEntryOneNotification ==
  /\ (job.id # 0 => Len(execution_history) <= job.h0 + 1)
  /\ JobReturned =>
       /\ Len(execution_history) = job.h0 + 1
       /\ Len(notifications) = job.n0 + 1
       /\ LET e == execution_history[Len(execution_history)]
              n == notifications[Len(notifications)]
          IN  /\ e.timestamp = job.id
              /\ n.timestamp = job.id
              /\ n.status = "SUCCESS" <=> (job.child = "returned" /\ job.code = 0)
              /\ n.status = "ERROR" <=> (job.child = "returned" /\ job.code # 0)
              /\ n.status = "TIMEOUT" <=> job.child = "timeout"
              /\ n.status = "EXCEPTION" <=> job.child = "exception"
              /\ e.success <=> n.status = "SUCCESS"

\* C21 witness: a job whose child returned a non-zero code has been recorded
C21_Witness == JobReturned /\ job.child = "returned" /\ job.code # 0

\* C22: after run_etl_job ends with a timeout or an exception, the saved
\* history has an entry for that job with success = false.
C22_TimeoutPersisted ==
  (JobReturned /\ job.child \in {"timeout", "exception"}) =>
     \E k \in 1..Len(history_file) :
        history_file[k].timestamp = job.id /\ ~history_file[k].success

\* C23: the saved history is appended to: a save keeps every entry the file
\* held, in place, and adds the new ones after them, also when the saving
\* scheduler is not the one that saved them.
C23_HistoryAppendedTo ==
  [][(history_file' # history_file /\ history_file' = execution_history') =>
       /\ Len(history_file) <= Len(history_file')
       /\ SubSeq(history_file', 1, Len(history_file)) = history_file]_vars

\* C29: one scheduler never has two child runs at the same time: a child is
\* started only when no child it started is still running.
C29_OneChildAtATime ==
  /\ [](Cardinality(children) <= 1)
  /\ [][(children' \ children # {}) => children = {}]_vars

\* C29 witness: a child is running that was started after an earlier child
\* was killed on timeout
C29_Witness ==
  /\ sched_pc = "child"
  /\ children = {job.id}
  /\ \E k \in 1..Len(execution_history) :
        execution_history[k].stderr = "Timeout after 1 hour"

\* ---------------------------------------------------------------- C31
\* sum of a sequence of numbers
RECURSIVE SumSeq(_)
SumSeq(q) == IF q = <<>> THEN 0 ELSE Head(q) + SumSeq(Tail(q))

\* C31: in the report generate_report builds from an execution_log,
\* successful_tables + failed_tables = total_tables = len(tables_detail),
\* total_records_processed is the sum of 'records' over the SUCCESS entries
\* only, and an ERROR entry contributes 0 records and 0 time: the total time is
\* the sum of the times of the SUCCESS entries.
C31_ReportTotals ==
  pc = "write_report" =>
     LET IsSuccess(e) == e.status = "SUCCESS"
         IsError(e) == e.status = "ERROR"
         ok == SelectSeq(execution_log, IsSuccess)
         bad == SelectSeq(execution_log, IsError)
     IN  /\ report.successful_tables + report.failed_tables = report.total_tables
         /\ report.total_tables = Len(report.tables_detail)
         /\ report.tables_detail = execution_log
         /\ report.successful_tables = Len(ok)
         /\ report.failed_tables = Len(bad)
         /\ report.total_records_processed = SumSeq([k \in 1..Len(ok) |-> ok[k].records])
         /\ report.total_execution_time = SumSeq([k \in 1..Len(ok) |-> ok[k].time])
         /\ \A k \in 1..Len(bad) : bad[k].records = 0 /\ bad[k].time = 0

\* a report built from a log with an ERROR entry and SUCCESS entries that
\* carry records and time
C31_Witness ==
  /\ pc = "write_report"
  /\ Len(execution_log) = MaxLog
  /\ report.failed_tables > 0
  /\ report.total_records_processed > 0
  /\ report.total_execution_time > 0
  /\ report.successful_tables > 1

\* ---------------------------------------------------------------- C32
\* C32: the execution_log and the control table move in step: the k-th entry
\* of execution_log and the k-th committed etl_control record name the same
\* table with the same status and the same record count, and an entry exists
\* only if its control record was committed.
C32_LogMatchesControl ==
  \A k \in 1..Len(execution_log) :
     /\ k <= Len(db.etl_control)
     /\ db.etl_control[k].table_name = execution_log[k].table
     /\ db.etl_control[k].status = execution_log[k].status
     /\ db.etl_control[k].records_processed = execution_log[k].records

\* ---------------------------------------------------------------- C33
\* C33: between two jobs, last_execution is the last entry of
\* execution_history, and it is None only when the history is empty.
C33_LastExecutionIsLastEntry ==
  sched_pc = "idle" =>
     IF execution_history = <<>>
       THEN last_execution = NoExecution
       ELSE last_execution = execution_history[Len(execution_history)]

\* ---------------------------------------------------------------- C34
\* the record and the status run_etl_job gives to a job, by the way its child
\* ended
OutcomeOf(j) ==
  CASE j.child = "returned" ->
         [record |-> ExecutionRecord(j.id, j.code, "child", j.code = 0),
          status |-> IF j.code = 0 THEN "SUCCESS" ELSE "ERROR"]
    [] j.child = "timeout" ->
         [record |-> ExecutionRecord(j.id, -1, "Timeout after 1 hour", FALSE),
          status |-> "TIMEOUT"]
    [] OTHER ->
         [record |-> ExecutionRecord(j.id, -1, "exception", FALSE),
          status |-> "EXCEPTION"]

\* a step taken while saving or notifying keeps the record and the status and
\* goes on towards the return
SaveOrNotifyStep ==
  sched_pc \in {"save", "notify"} =>
     /\ execution_history' = execution_history
     /\ last_execution' = last_execution
     /\ status' = status
     /\ sched_pc' \in {"notify", "idle"}

\* an SMTP send is attempted only with notifications enabled
SendOnlyIfEnabled == emails' # emails => notification_config

\* C34: a failure while saving the history or sending the notification never
\* changes the outcome recorded for the job and never leaves run_etl_job:
\* saving and notifying leave execution_history and last_execution as they
\* are and go on to the return, the returned job has the one record and the
\* one notification status its child's end determines, and with
\* notifications disabled no send is attempted.
C34_SaveAndSendFailuresContained ==
  /\ [][SaveOrNotifyStep]_vars
  /\ [](JobReturned =>
          /\ Len(execution_history) = job.h0 + 1
          /\ execution_history[Len(execution_history)] = OutcomeOf(job).record
          /\ notifications[Len(notifications)].status = OutcomeOf(job).status)
  /\ [][SendOnlyIfEnabled]_vars

\* a job whose child returned, whose save failed and whose send failed
C34_Witness ==
  /\ JobReturned
  /\ job.child = "returned"
  /\ job.saved = "failed"
  /\ notification_config
  /\ emails # <<>>
  /\ emails[Len(emails)].timestamp = job.id
  /\ ~emails[Len(emails)].sent

\* ---------------------------------------------------------------- C38
\* status_report describes the scheduler as it is: NO_EXECUTIONS for an empty
\* history; otherwise the number of invocations and the rate s/n over the last
\* n = min(10, total) entries
StatusReportCorrect ==
     IF execution_history = <<>>
       THEN status_report.status = "NO_EXECUTIONS"
       ELSE /\ status_report.status = "ACTIVE"
            /\ status_report.total_executions = jobs
            /\ LET s == status_report.recent_success_rate[1]
                    n == status_report.recent_success_rate[2]
                    total == Len(execution_history)
               IN  /\ n = IF total < 10 THEN total ELSE 10
                   /\ s = Cardinality({k \in (total - n + 1)..total :
                                          execution_history[k].success})
                   /\ 0 <= s /\ s <= n /\ n <= 10

\* C38: get_status_report returns NO_EXECUTIONS iff execution_history is
\* empty; otherwise total_executions is the number of run_etl_job invocations
\* so far and recent_success_rate is s/n, n being the smaller of 10 and
\* total_executions and s the number of successes among the last n entries,
\* so that 0 <= s <= n <= 10.
C38_StatusReport == [][status_report' # status_report => StatusReportCorrect']_vars

\* a report on a history longer than the window, with failures inside and
\* outside the window
C38_Witness ==
  /\ status_report # NoReport
  /\ Len(execution_history) > RecentWindow
  /\ ~execution_history[1].success
  /\ status_report.recent_success_rate[1] \in 1..(RecentWindow - 1)

\* ---------------------------------------------------------------- C35
\* C35: a load_* call of the CSV loader is atomic on the source database: when
\* it returns False its truncate and inserts are rolled back and every
\* bi_schema table holds what it held before the call; when it returns True
\* the table holds exactly the rows of the CSV file.
C35_LoadAtomic ==
  /\ cl.ret = "False" => (source = cl.prior /\ csv_txn = source)
  /\ cl.ret = "True" => source[cl.table] = csv_files[cl.table]

\* a load that failed after its truncate, on a table that held rows
C35_Witness ==
  /\ cl.ret = "False"
  /\ cl.fault \in {"insert", "commit"}
  /\ cl.prior[cl.table] # {}
  /\ csv_files[cl.table] # cl.prior[cl.table]

\* ---------------------------------------------------------------- C36
\* the load_* calls run_full_load made, in order
LoadsAttempted ==
  LET IsLoad(c) == c \in {csv_loads[k] : k \in 1..Len(csv_loads)}
  IN  SelectSeq(csv_calls, IsLoad)

\* run_full_load connected and is over
LoaderDone == csv_pc = "returned" /\ csv_conn # "None"

\* validate_data was called
Validated_csv == \E k \in 1..Len(csv_calls) : csv_calls[k] = "validate_data"

\* what the claim says of a run that connected, given how it ended
LoaderOutcome ==
  /\ LoadsAttempted = csv_loads
  /\ csv_result \in {"True", "False"}
  /\ Validated_csv <=> csv_commits = csv_loads
  /\ csv_result = "True" => (csv_commits = csv_loads /\ validate_data(source))
  /\ csv_commits # csv_loads => csv_result = "False"
  /\ csv_conn = "closed"

\* C36: run_full_load, once connected, attempts the four loads in the order
\* dim_date, dim_customer_segment, dim_product, fact_sales even when an
\* earlier one fails, runs validate_data only if the four succeeded, returns
\* true iff the loads and the validation succeeded, and closes the connection
\* on every path; when the connection fails it returns false without a load.
C36_AllLoadsAttempted ==
  csv_pc = "returned" =>
     IF csv_conn = "None"
       THEN csv_result = "False" /\ LoadsAttempted = <<>>
       ELSE LoaderOutcome

\* ---------------------------------------------------------------- C37
\* the last load that committed is a dimension load
DimensionCommittedLast ==
  /\ csv_commits # <<>>
  /\ csv_commits[Len(csv_commits)] # "fact_sales"

\* C37: after a dimension load commits, bi_schema.fact_sales is empty until
\* load_fact_sales commits; so a run whose fact load fails after a dimension
\* load committed ends with an empty fact_sales.
C37_FactEmptyAfterDimension ==
  /\ DimensionCommittedLast => source["fact_sales"] = {}
  /\ (LoaderDone /\ cl.table = "fact_sales" /\ cl.ret = "False" /\ csv_commits # <<>>)
        => source["fact_sales"] = {}

\* a run on a source with fact rows whose dimension loads committed and whose
\* fact load failed
C37_Witness ==
  /\ LoaderDone
  /\ cl.table = "fact_sales"
  /\ cl.ret = "False"
  /\ cl.prior["fact_sales"] = {}
  /\ Len(csv_commits) = Len(csv_loads) - 1
  /\ source["fact_sales"] = {}
  /\ csv_files["fact_sales"] # {}

\* (C37 as stated) a run whose fact load fails ends with an empty fact_sales
C37_FactEmptyAfterFailedFactLoad ==
  (LoaderDone /\ cl.table = "fact_sales" /\ cl.ret = "False")
     => source["fact_sales"] = {}

\* ---------------------------------------------------------------- C39
\* run_full_setup is over
SetupDone == setup_pc \in {"returned", "raised"}

\* C39: run_full_setup executes the six steps in their order whichever of
\* them failed, returns true iff failed_steps is empty at the end, and the
\* report's total_steps is len(success_steps) + len(failed_steps) and at
\* least 1.
C39_SetupRunsAllSteps ==
  SetupDone =>
     /\ setup_calls = steps
     /\ setup_result \in {"True", "False"}
     /\ setup_result = "True" <=> failed_steps = <<>>
     /\ setup_report.total_steps = Len(success_steps) + Len(failed_steps)
     /\ setup_report.total_steps >= 1

\* ---------------------------------------------------------------- C40
\* ejecutar_consulta has returned or raised
QueryDone == q_pc = "idle" /\ q_call.ret # "none"

\* C40: ejecutar_consulta never leaks a connection and never leaves a
\* transaction open: the connection it opened is closed when it ends, the
\* transaction is committed only when the query and the fetch raised no
\* database error, and on a database error it is rolled back and None is
\* returned.
C40_QueryClosesAndRollsBack ==
  QueryDone =>
     /\ q_conn # "open"
     /\ q_view = q_db
     /\ q_call.committed => q_call.error = "none"
     /\ q_call.error = "database" =>
           (q_call.ret = "None" /\ q_call.rolled_back /\ q_db = q_call.prior)

=============================================================================
